---- MODULE Spec2Model ----
(***************************************************************************)
(* hid-json: one run of the decoder in src/main.rs.  A run parses the      *)
(* command line, opens the destination, reads the descriptor, tokenizes    *)
(* it (hidreport crate), maps every tokenized item to a JsonItem in one    *)
(* forward pass that threads last_usage_page, and serializes the document. *)
(*                                                                         *)
(* Option<T> is modelled as a sequence: <<>> is None, <<x>> is Some(x).    *)
(* The hidreport tokenizer, the hut usage tables and serde_json are        *)
(* external crates; they are modelled at the interface main.rs uses.       *)
(***************************************************************************)
EXTENDS Integers, Sequences, FiniteSets, TLC

\* Longest descriptor, in items, that a run decodes.
MaxLen == 3

\* A u32 is kept as its two 16-bit halves [hi, lo] (value hi * 2^16 + lo).
U16 == 65536
I15 == 32768

Word(h, l) == [hi |-> h, lo |-> l]

\* u32 as u16: the low half
AsU16(d) == d.lo

\* u32 as i32: two's complement reinterpretation
AsI32(d) == IF d.hi >= I15 THEN (d.hi - U16) * U16 + d.lo ELSE d.hi * U16 + d.lo

None == <<>>
Some(x) == <<x>>

VARIABLES
    cli,             \* Cli: [pretty, skip_data, output_file]
    input,           \* the file at cli.path: [src, desc]
    fileBefore,      \* the named output file before the run: "absent" | "old"
    pc,              \* position of hid_decode / main
    bytes,           \* let bytes
    descriptor,      \* let descriptor (Option: None until built)
    rdesc_items,     \* let rdesc_items: sequence of [item, offset]
    items,           \* the JsonItems produced so far by the map closure
    last_usage_page, \* let mut last_usage_page: u16
    usedPage,        \* history: the page argument of each lookup_usage call
    file,            \* the named output file: "absent" | "old" | "empty" | "partial" | "doc"
    stdout,          \* standard output: "none" | "partial" | "doc"
    written,         \* the JsonDecode handed to serde_json (Option)
    layout,          \* "none" | "compact" | "pretty"
    stderr,          \* "" | the message printed
    status,          \* exit status: -1 while running, 0, 1, 101 (panic)
    fail,            \* why the run failed: "none" | "create" | "read" | "tokenize" | "todo" | "write"
    pair,            \* classifier harness: the two items under classification
    names            \* classifier harness: their [type, name] results

vars == <<cli, input, fileBefore, pc, bytes, descriptor, rdesc_items, items,
          last_usage_page, usedPage, file, stdout, written, layout, stderr,
          status, fail, pair, names>>

runVars == <<cli, input, fileBefore, pc, bytes, descriptor, rdesc_items, items,
             last_usage_page, usedPage, file, stdout, written, layout, stderr,
             status, fail>>

-----------------------------------------------------------------------------
(* Tokenized items, as hidreport hands them to main.rs.                    *)

\* An item: its raw bytes, ItemType variant (cat), sub-kind (kind), the
\* CollectionItem variant of a Collection (coll), item.data() decoded as
\* u32 (data) and the UsagePage payload of a GlobalItem::UsagePage (page).
Item(b, c, k, co, d, p) ==
    [bytes |-> b, cat |-> c, kind |-> k, coll |-> co, data |-> d, page |-> p]

\* GlobalItem::UsagePage { usage_page }: the payload is the 16-bit page the
\* tokenizer decoded from the item's data.
UsagePageItem(b, v) == Item(b, "Global", "UsagePage", "-", Some(v), AsU16(v))

UsageItem(b, v) == Item(b, "Local", "Usage", "-", Some(v), 0)

CollectionItem(b, co, v) == Item(b, "Main", "Collection", co, Some(v), 0)

Palette ==
    { UsagePageItem(<<5, 1>>, Word(0, 1)),
      UsagePageItem(<<5, 19>>, Word(0, 19)),
      UsagePageItem(<<7, 1, 0, 1, 0>>, Word(1, 1)),
      UsageItem(<<9, 2>>, Word(0, 2)),
      UsageItem(<<11, 2, 0, 1, 0>>, Word(1, 2)),
      CollectionItem(<<161, 0>>, "Physical", Word(0, 0)),
      CollectionItem(<<161, 1>>, "Application", Word(0, 1)),
      CollectionItem(<<161, 3>>, "Report", Word(0, 3)),
      Item(<<192>>, "Main", "EndCollection", "-", None, 0),
      Item(<<23, 255, 255, 255, 255>>, "Global", "LogicalMinimum", "-",
           Some(Word(65535, 65535)), 0),
      Item(<<12>>, "Reserved", "-", "-", None, 0) }

Descriptors == UNION { [1..n -> Palette] : n \in 0..MaxLen }

\* Bytes the tokenizer rejects: a Usage Page prefix announcing one data byte
\* that is missing.
MalformedBytes == <<5>>

RECURSIVE Flatten(_)
Flatten(desc) ==
    IF desc = <<>> THEN <<>> ELSE Head(desc).bytes \o Flatten(Tail(desc))

\* ReportDescriptorItems: each item with the offset of its first byte.
RECURSIVE WithOffsets(_, _)
WithOffsets(desc, off) ==
    IF desc = <<>> THEN <<>>
    ELSE <<[item |-> Head(desc), offset |-> off]>>
         \o WithOffsets(Tail(desc), off + Len(Head(desc).bytes))

-----------------------------------------------------------------------------
(* hut: the usage tables.                                                  *)

\* hut::UsagePage::try_from(u16).ok(), formatted.
UsagePageLabel(up) ==
    IF up = 1 THEN Some("Generic Desktop")
    ELSE IF up = 7 THEN Some("Keyboard/Keypad")
    ELSE None

\* hut::Usage::new_from_page_and_id(page, id).ok(), formatted.
UsageLabel(page, id) ==
    IF page = 1 /\ id = 1 THEN Some("Pointer")
    ELSE IF page = 1 /\ id = 2 THEN Some("Mouse")
    ELSE IF page = 7 /\ id = 2 THEN Some("ErrorRollOver")
    ELSE None

-----------------------------------------------------------------------------
(* The classifier and the annotation look-ups.                             *)

JsonItemType(item) ==
    IF item.cat \in {"Main", "Global", "Local"} THEN item.cat ELSE "Unknown"

\* The arms of JsonItemName::from for ItemType::Main: sub-kind |-> name.
MainItemName ==
    [Input |-> "Input", Output |-> "Output", Feature |-> "Feature",
     Collection |-> "Collection", EndCollection |-> "EndCollection"]

\* The arms for ItemType::Global.
GlobalItemName ==
    [UsagePage |-> "UsagePage", LogicalMinimum |-> "LogicalMinimum",
     LogicalMaximum |-> "LogicalMaximum", PhysicalMinimum |-> "PhysicalMinimum",
     PhysicalMaximum |-> "PhysicalMaximum", UnitExponent |-> "UnitExponent",
     Unit |-> "Unit", ReportSize |-> "ReportSize", ReportId |-> "ReportId",
     ReportCount |-> "ReportCount", Push |-> "Push", Pop |-> "Pop",
     Reserved |-> "Reserved"]

\* The arms for ItemType::Local.
LocalItemName ==
    [Usage |-> "Usage", UsageMinimum |-> "UsageMinimum",
     UsageMaximum |-> "UsageMaximum", DesignatorIndex |-> "DesignatorIndex",
     DesignatorMinimum |-> "DesignatorMinimum",
     DesignatorMaximum |-> "DesignatorMaximum", StringIndex |-> "StringIndex",
     StringMinimum |-> "StringMinimum", StringMaximum |-> "StringMaximum",
     Delimiter |-> "Delimiter", Reserved |-> "Reserved"]

\* A copy-paste slip in the Local arms: UsageMinimum named Usage.
JsonItemNameSlip(item) ==
    CASE item.cat = "Main" -> MainItemName[item.kind]
      [] item.cat = "Global" -> GlobalItemName[item.kind]
      [] item.cat = "Local" ->
            IF item.kind = "UsageMinimum" THEN "Usage" ELSE LocalItemName[item.kind]
      [] OTHER -> "Unknown"

\* JsonItemName::from
JsonItemName(item) ==
    CASE item.cat = "Main" -> MainItemName[item.kind]
      [] item.cat = "Global" -> GlobalItemName[item.kind]
      [] item.cat = "Local" -> LocalItemName[item.kind]
      [] OTHER -> "Unknown"

\* The catch-all arm yields None instead of reaching todo!().
JsonCollection_lookupSilent(item) ==
    IF item.cat = "Main" /\ item.kind = "Collection"
    THEN IF item.coll \in {"Physical", "Logical", "Application"}
         THEN [panic |-> FALSE, val |-> Some(item.coll)]
         ELSE [panic |-> FALSE, val |-> None]
    ELSE [panic |-> FALSE, val |-> None]

\* Every known arm yields JsonCollection::Physical.
JsonCollection_lookupAllPhysical(item) ==
    IF item.cat = "Main" /\ item.kind = "Collection"
    THEN IF item.coll \in {"Physical", "Logical", "Application"}
         THEN [panic |-> FALSE, val |-> Some("Physical")]
         ELSE [panic |-> TRUE, val |-> None]
    ELSE [panic |-> FALSE, val |-> None]

\* JsonCollection::lookup: panic is the todo!() arm.
JsonCollection_lookup(item) ==
    IF item.cat = "Main" /\ item.kind = "Collection"
    THEN IF item.coll \in {"Physical", "Logical", "Application"}
         THEN [panic |-> FALSE, val |-> Some(item.coll)]
         ELSE [panic |-> TRUE, val |-> None]
    ELSE [panic |-> FALSE, val |-> None]

lookup_usage_page(item) ==
    IF item.cat = "Global" /\ item.kind = "UsagePage"
    THEN IF item.data # None
         THEN UsagePageLabel(AsU16(item.data[1]))
         ELSE None
    ELSE None

\* The match on LocalItem::Usage is missing: any item with data is looked up.
lookup_usageAnyItem(item, usage_page) ==
    IF item.data # None
    THEN UsageLabel(usage_page, AsU16(item.data[1]))
    ELSE None

\* new_from_page_and_id called with its arguments swapped.
lookup_usageSwapped(item, usage_page) ==
    IF item.cat = "Local" /\ item.kind = "Usage"
    THEN IF item.data # None
         THEN UsageLabel(AsU16(item.data[1]), usage_page)
         ELSE None
    ELSE None

lookup_usage(item, usage_page) ==
    IF item.cat = "Local" /\ item.kind = "Usage"
    THEN IF item.data # None
         THEN UsageLabel(usage_page, AsU16(item.data[1]))
         ELSE None
    ELSE None

ItemValue(item) == IF item.data = None THEN None ELSE Some(AsI32(item.data[1]))

\* The state is updated only when the page has a label.
UpdateUsagePageIfKnown(item, lup) ==
    IF item.cat = "Global" /\ item.kind = "UsagePage"
       /\ UsagePageLabel(item.page) # None
    THEN item.page
    ELSE lup

\* if let GlobalItem::UsagePage { usage_page } ... last_usage_page = u16::from(usage_page)
UpdateUsagePage(item, lup) ==
    IF item.cat = "Global" /\ item.kind = "UsagePage" THEN item.page ELSE lup

\* data: if cli.skip_data { None } else { Some(..) }
DataField(skip_data, b) == IF skip_data THEN None ELSE Some(b)

\* skip_data also drops the value field.
JsonItemDropsValue(rdesc_item, lup, skip_data) ==
    [offset     |-> rdesc_item.offset,
     data       |-> DataField(skip_data, rdesc_item.item.bytes),
     type       |-> JsonItemType(rdesc_item.item),
     name       |-> JsonItemName(rdesc_item.item),
     value      |-> IF skip_data THEN None ELSE ItemValue(rdesc_item.item),
     collection |-> JsonCollection_lookup(rdesc_item.item).val,
     usage_page |-> lookup_usage_page(rdesc_item.item),
     usage      |-> lookup_usage(rdesc_item.item, lup)]

\* The JsonItem the closure returns for rdesc_item, with lup the value of
\* last_usage_page after the closure's own update.
JsonItem(rdesc_item, lup, skip_data) ==
    [offset     |-> rdesc_item.offset,
     data       |-> DataField(skip_data, rdesc_item.item.bytes),
     type       |-> JsonItemType(rdesc_item.item),
     name       |-> JsonItemName(rdesc_item.item),
     value      |-> ItemValue(rdesc_item.item),
     collection |-> JsonCollection_lookup(rdesc_item.item).val,
     usage_page |-> lookup_usage_page(rdesc_item.item),
     usage      |-> lookup_usage(rdesc_item.item, lup)]

JsonDescriptor(b, skip_data) ==
    [length |-> Len(b), data |-> DataField(skip_data, b)]

\* skip_data does not imply the indented layout.
LayoutPrettyOnly(c) == IF c.pretty THEN "pretty" ELSE "compact"

\* if cli.skip_data || cli.pretty { to_writer_pretty } else { to_writer }
Layout(c) == IF c.skip_data \/ c.pretty THEN "pretty" ELSE "compact"

-----------------------------------------------------------------------------
(* The run.                                                                *)

Init ==
    /\ cli \in [pretty : BOOLEAN, skip_data : BOOLEAN, output_file : {"-", "out.json"}]
    /\ input \in [src : {"ok"}, desc : Descriptors]
                 \cup [src : {"unreadable", "malformed"}, desc : {<<>>}]
    /\ fileBefore \in {"absent", "old"}
    /\ (cli.output_file = "-" => fileBefore = "absent")
    /\ pc = "open"
    /\ bytes = <<>>
    /\ descriptor = None
    /\ rdesc_items = <<>>
    /\ items = <<>>
    /\ last_usage_page = 0
    /\ usedPage = <<>>
    /\ file = fileBefore
    /\ stdout = "none"
    /\ written = None
    /\ layout = "none"
    /\ stderr = ""
    /\ status = -1
    /\ fail = "none"
    /\ pair = <<>>
    /\ names = <<>>

\* main's Err arm: eprintln!("Error: ..."), ExitCode::FAILURE
ExitErr(why) ==
    /\ pc' = "done"
    /\ fail' = why
    /\ stderr' = "Error"
    /\ status' = 1

\* a panic unwinds out of main: message on stderr, exit status 101
ExitPanic(why, msg) ==
    /\ pc' = "done"
    /\ fail' = why
    /\ stderr' = msg
    /\ status' = 101

OpenStdout ==
    /\ pc = "open"
    /\ cli.output_file = "-"
    /\ pc' = "read"
    /\ UNCHANGED <<cli, input, fileBefore, bytes, descriptor, rdesc_items, items,
                   last_usage_page, usedPage, file, stdout, written, layout,
                   stderr, status, fail, pair, names>>

\* File::create: creates the file or truncates the one that exists
CreateFile ==
    /\ pc = "open"
    /\ cli.output_file # "-"
    /\ file' = "empty"
    /\ pc' = "read"
    /\ UNCHANGED <<cli, input, fileBefore, bytes, descriptor, rdesc_items, items,
                   last_usage_page, usedPage, stdout, written, layout,
                   stderr, status, fail, pair, names>>

\* File::create(..).unwrap() on an Err
CreateFilePanics ==
    /\ pc = "open"
    /\ cli.output_file # "-"
    /\ ExitPanic("create", "called Result::unwrap() on an Err value")
    /\ UNCHANGED <<cli, input, fileBefore, bytes, descriptor, rdesc_items, items,
                   last_usage_page, usedPage, file, stdout, written, layout,
                   pair, names>>

ReadOk ==
    /\ pc = "read"
    /\ input.src # "unreadable"
    /\ bytes' = (IF input.src = "ok" THEN Flatten(input.desc) ELSE MalformedBytes)
    /\ descriptor' = Some(JsonDescriptor(bytes', cli.skip_data))
    /\ last_usage_page' = 0
    /\ pc' = "tokenize"
    /\ UNCHANGED <<cli, input, fileBefore, rdesc_items, items, usedPage, file,
                   stdout, written, layout, stderr, status, fail, pair, names>>

ReadErr ==
    /\ pc = "read"
    /\ input.src = "unreadable"
    /\ ExitErr("read")
    /\ UNCHANGED <<cli, input, fileBefore, bytes, descriptor, rdesc_items, items,
                   last_usage_page, usedPage, file, stdout, written, layout,
                   pair, names>>

TokenizeOk ==
    /\ pc = "tokenize"
    /\ input.src = "ok"
    /\ rdesc_items' = WithOffsets(input.desc, 0)
    /\ pc' = "map"
    /\ UNCHANGED <<cli, input, fileBefore, bytes, descriptor, items,
                   last_usage_page, usedPage, file, stdout, written, layout,
                   stderr, status, fail, pair, names>>

TokenizeErr ==
    /\ pc = "tokenize"
    /\ input.src = "malformed"
    /\ ExitErr("tokenize")
    /\ UNCHANGED <<cli, input, fileBefore, bytes, descriptor, rdesc_items, items,
                   last_usage_page, usedPage, file, stdout, written, layout,
                   pair, names>>

\* one call of the map closure that returns a JsonItem
MapItem ==
    /\ pc = "map"
    /\ Len(items) < Len(rdesc_items)
    /\ LET rdesc_item == rdesc_items[Len(items) + 1]
       IN /\ ~JsonCollection_lookup(rdesc_item.item).panic
          /\ last_usage_page' = UpdateUsagePage(rdesc_item.item, last_usage_page)
          /\ items' = Append(items, JsonItem(rdesc_item, last_usage_page', cli.skip_data))
          /\ usedPage' = Append(usedPage, last_usage_page')
    /\ UNCHANGED <<cli, input, fileBefore, pc, bytes, descriptor, rdesc_items,
                   file, stdout, written, layout, stderr, status, fail,
                   pair, names>>

\* one call of the map closure that reaches todo!()
MapItemTodo ==
    /\ pc = "map"
    /\ Len(items) < Len(rdesc_items)
    /\ LET rdesc_item == rdesc_items[Len(items) + 1]
       IN /\ JsonCollection_lookup(rdesc_item.item).panic
          /\ last_usage_page' = UpdateUsagePage(rdesc_item.item, last_usage_page)
    /\ ExitPanic("todo", "not yet implemented")
    /\ UNCHANGED <<cli, input, fileBefore, bytes, descriptor, rdesc_items, items,
                   usedPage, file, stdout, written, layout, pair, names>>

JsonDecode == [version |-> "1.0", descriptor |-> descriptor[1], items |-> items]

\* collect, build JsonDecode, serde_json::to_writer(_pretty) succeeds
SerializeOk ==
    /\ pc = "map"
    /\ Len(items) = Len(rdesc_items)
    /\ written' = Some(JsonDecode)
    /\ layout' = Layout(cli)
    /\ IF cli.output_file = "-"
       THEN stdout' = "doc" /\ file' = file
       ELSE file' = "doc" /\ stdout' = stdout
    /\ pc' = "done"
    /\ status' = 0
    /\ UNCHANGED <<cli, input, fileBefore, bytes, descriptor, rdesc_items, items,
                   last_usage_page, usedPage, stderr, fail, pair, names>>

\* the writer fails: before the first byte or after some of the bytes
SerializeErr ==
    /\ pc = "map"
    /\ Len(items) = Len(rdesc_items)
    /\ written' = Some(JsonDecode)
    /\ layout' = Layout(cli)
    /\ \E partial \in BOOLEAN :
          IF cli.output_file = "-"
          THEN stdout' = (IF partial THEN "partial" ELSE stdout) /\ file' = file
          ELSE file' = (IF partial THEN "partial" ELSE file) /\ stdout' = stdout
    /\ ExitErr("write")
    /\ UNCHANGED <<cli, input, fileBefore, bytes, descriptor, rdesc_items, items,
                   last_usage_page, usedPage, pair, names>>

Next ==
    \/ OpenStdout
    \/ CreateFile
    \/ CreateFilePanics
    \/ ReadOk
    \/ ReadErr
    \/ TokenizeOk
    \/ TokenizeErr
    \/ MapItem
    \/ MapItemTodo
    \/ SerializeOk
    \/ SerializeErr

Spec == Init /\ [][Next]_vars

-----------------------------------------------------------------------------
(* The classifier alone: JsonItemType and JsonItemName::from applied to    *)
(* two items drawn from every (ItemType, sub-kind) pair of the grammar.    *)

Kinds ==
    { [cat |-> "Main", kind |-> k] : k \in DOMAIN MainItemName }
    \cup { [cat |-> "Global", kind |-> k] : k \in DOMAIN GlobalItemName }
    \cup { [cat |-> "Local", kind |-> k] : k \in DOMAIN LocalItemName }
    \cup { [cat |-> "Long", kind |-> "-"], [cat |-> "Reserved", kind |-> "-"] }

KindItem(c) == Item(<<>>, c.cat, c.kind, "-", None, 0)

InitClassify ==
    /\ pair \in { <<KindItem(a), KindItem(b)>> : a \in Kinds, b \in Kinds }
    /\ names = <<>>
    /\ cli = [pretty |-> FALSE, skip_data |-> FALSE, output_file |-> "-"]
    /\ input = [src |-> "ok", desc |-> <<>>]
    /\ fileBefore = "absent"
    /\ pc = "classify"
    /\ bytes = <<>>
    /\ descriptor = None
    /\ rdesc_items = <<>>
    /\ items = <<>>
    /\ last_usage_page = 0
    /\ usedPage = <<>>
    /\ file = "absent"
    /\ stdout = "none"
    /\ written = None
    /\ layout = "none"
    /\ stderr = ""
    /\ status = -1
    /\ fail = "none"

\* let item_type = match ...; let item_name = JsonItemName::from(item);
Classify ==
    /\ pc = "classify"
    /\ names = <<>>
    /\ names' = [i \in 1..2 |-> [type |-> JsonItemType(pair[i]),
                                 name |-> JsonItemName(pair[i])]]
    /\ UNCHANGED <<pair, runVars>>

NextClassify == Classify

SpecClassify == InitClassify /\ [][NextClassify]_vars

-----------------------------------------------------------------------------
(* Properties.                                                             *)

IsUsagePage(item) == item.cat = "Global" /\ item.kind = "UsagePage"

IsUsage(item) == item.cat = "Local" /\ item.kind = "Usage"

IsCollection(item) == item.cat = "Main" /\ item.kind = "Collection"

Max(S) == CHOOSE x \in S : \A y \in S : y <= x

\* Positions before k that hold a Usage-Page item.
PagesBefore(k) == { j \in 1..(k - 1) : IsUsagePage(rdesc_items[j].item) }

\* The page in effect at position k, from the raw values of the stream:
\* the raw value of the last Usage-Page item before k, mod 2^16; else 0.
PageInEffect(k) ==
    IF PagesBefore(k) = {} THEN 0
    ELSE LET P == rdesc_items[Max(PagesBefore(k))].item.data[1]
         IN  (P.hi * U16 + P.lo) % U16

\* The resolver state as left by items 1..j.
RECURSIVE StateAfter(_)
StateAfter(j) ==
    IF j = 0 THEN 0
    ELSE UpdateUsagePage(rdesc_items[j].item, StateAfter(j - 1))

\* The document a successful run builds from the tokenized items and the
\* bytes, for a given skip_data.
DocumentFor(skip_data) ==
    [version    |-> "1.0",
     descriptor |-> JsonDescriptor(bytes, skip_data),
     items      |-> [k \in 1..Len(rdesc_items) |->
                        JsonItem(rdesc_items[k], StateAfter(k), skip_data)]]

\* C1: every Usage item is looked up with the raw value, mod 2^16, of the
\* last Usage-Page item before it, whether or not that page has a label,
\* and with page 0 when no Usage-Page item precedes it.
C1_UsageLookedUpOnPageInEffect ==
    \A k \in 1..Len(items) :
        IsUsage(rdesc_items[k].item) =>
            /\ usedPage[k] = PageInEffect(k)
            /\ rdesc_items[k].item.data # None =>
                  items[k].usage =
                      UsageLabel(PageInEffect(k), AsU16(rdesc_items[k].item.data[1]))

\* A Usage item was looked up on an unlabelled page that had replaced an
\* earlier page.
C1_Witness ==
    \E k \in 1..Len(items) :
        /\ IsUsage(rdesc_items[k].item)
        /\ usedPage[k] = 19
        /\ Cardinality(PagesBefore(k)) >= 2
        /\ items[k].usage = None

\* C2: the annotations of item k are those computed from the resolver
\* state left by items 1..k-1; the update made by item k itself, and every
\* later item, leaves them as they are.
C2_AnnotationsFromEarlierState ==
    \A k \in 1..Len(items) :
        LET item == rdesc_items[k].item
        IN  /\ items[k].collection = JsonCollection_lookup(item).val
            /\ items[k].usage_page = lookup_usage_page(item)
            /\ items[k].usage = lookup_usage(item, StateAfter(k - 1))

\* A Usage-Page item changed the state, and a later item was processed.
C2_Witness ==
    \E k \in 1..Len(items) :
        /\ k < Len(items)
        /\ IsUsagePage(rdesc_items[k].item)
        /\ StateAfter(k) # StateAfter(k - 1)
        /\ UsageLabel(StateAfter(k), AsU16(rdesc_items[k].item.data[1])) # None

\* C3: once the tokenizer has accepted the bytes, the pass ends with one
\* output item per tokenized item, in stream order, and never aborts.
C3_OneItemPerTokenizedItem ==
    (pc = "done" /\ fail \notin {"create", "read", "tokenize"}) =>
        /\ fail # "todo"
        /\ Len(items) = Len(rdesc_items)
        /\ \A k \in 1..Len(items) :
              /\ items[k].offset = rdesc_items[k].offset
              /\ items[k].type = JsonItemType(rdesc_items[k].item)
              /\ items[k].name = JsonItemName(rdesc_items[k].item)

\* C4: a run that ends in a fatal condition has written nothing: the named
\* output file is as it was before the run and nothing went to stdout.
C4_NoOutputOnFailure ==
    (pc = "done" /\ status # 0) =>
        /\ file = fileBefore
        /\ stdout = "none"

\* C5: the document built with skip_data has no data field anywhere and
\* agrees on every other field with the document built without it.
C5_SkipDataOnlyDropsData ==
    written # None =>
        LET doc   == written[1]
            other == DocumentFor(~cli.skip_data)
            bare  == IF cli.skip_data THEN doc ELSE other
        IN  /\ bare.descriptor.data = None
            /\ \A k \in 1..Len(bare.items) : bare.items[k].data = None
            /\ doc.version = other.version
            /\ doc.descriptor.length = other.descriptor.length
            /\ Len(doc.items) = Len(other.items)
            /\ \A k \in 1..Len(doc.items) :
                  /\ doc.items[k].offset = other.items[k].offset
                  /\ doc.items[k].type = other.items[k].type
                  /\ doc.items[k].name = other.items[k].name
                  /\ doc.items[k].value = other.items[k].value
                  /\ doc.items[k].collection = other.items[k].collection
                  /\ doc.items[k].usage_page = other.items[k].usage_page
                  /\ doc.items[k].usage = other.items[k].usage

\* A document with skip_data set whose items carry values and labels.
C5_Witness ==
    /\ written # None
    /\ status = 0
    /\ cli.skip_data
    /\ \E k \in 1..Len(items) : items[k].value # None /\ items[k].usage # None
    /\ DocumentFor(FALSE).descriptor.data # None

\* C6: the layout handed to the serializer is indented exactly when pretty
\* or skip_data is set and compact exactly when both are unset, and the
\* document does not depend on the layout.
C6_LayoutIndentedIffPrettyOrSkipData ==
    layout # "none" =>
        /\ layout \in {"pretty", "compact"}
        /\ layout = "pretty" <=> (cli.pretty \/ cli.skip_data)
        /\ layout = "compact" <=> (~cli.pretty /\ ~cli.skip_data)
        /\ written = Some(DocumentFor(cli.skip_data))

\* skip_data without pretty gave the indented layout.
C6_Witness ==
    /\ status = 0
    /\ cli.skip_data
    /\ ~cli.pretty
    /\ layout = "pretty"
    /\ Len(items) > 0

\* C7: in a document, an item has a collection annotation exactly when it
\* is a Main Collection item, and the annotation is the item's own
\* sub-kind, one of Physical, Logical, Application.
C7_CollectionOnlyOnCollectionItems ==
    written # None =>
        \A k \in 1..Len(written[1].items) :
            LET item == rdesc_items[k].item
                ann  == written[1].items[k].collection
            IN  /\ ann # None <=> IsCollection(item)
                /\ IsCollection(item) =>
                      /\ ann = Some(item.coll)
                      /\ item.coll \in {"Physical", "Logical", "Application"}

\* A document with an Application collection next to other items.
C7_Witness ==
    /\ status = 0
    /\ written # None
    /\ \E k \in 1..Len(items) : items[k].collection = Some("Application")
    /\ \E k \in 1..Len(items) : items[k].collection = Some("Physical")
    /\ \E k \in 1..Len(items) : items[k].collection = None

\* The Usage-Page item that governs position k, when its page has a label.
GoverningPage(k) == Max(PagesBefore(k))

KnownPageGoverns(k) ==
    /\ IsUsage(rdesc_items[k].item)
    /\ rdesc_items[k].item.data # None
    /\ PagesBefore(k) # {}
    /\ UsagePageLabel(PageInEffect(k)) # None

\* C8 as stated: a Usage item that follows a Usage-Page item of a known
\* page carries usage_page = the page's label and usage = the label of
\* (page, usage id).
C8_UsageItemCarriesPageAndUsage ==
    written # None =>
        \A k \in 1..Len(written[1].items) :
            KnownPageGoverns(k) =>
                /\ written[1].items[k].usage_page = UsagePageLabel(PageInEffect(k))
                /\ written[1].items[k].usage =
                      UsageLabel(PageInEffect(k), AsU16(rdesc_items[k].item.data[1]))

\* C8 amended: the Usage-Page item carries usage_page = the page's label;
\* the Usage item carries usage = the label of (page, usage id) and no
\* usage_page.
C8_PageOnPageItemUsageOnUsageItem ==
    written # None =>
        \A k \in 1..Len(written[1].items) :
            KnownPageGoverns(k) =>
                /\ written[1].items[GoverningPage(k)].usage_page =
                      UsagePageLabel(PageInEffect(k))
                /\ written[1].items[k].usage_page = None
                /\ written[1].items[k].usage =
                      UsageLabel(PageInEffect(k), AsU16(rdesc_items[k].item.data[1]))

\* The document of Usage Page 0x0001 followed by Usage 0x0002.
C8_Witness ==
    /\ status = 0
    /\ written # None
    /\ Len(items) = 2
    /\ rdesc_items[1].item = UsagePageItem(<<5, 1>>, Word(0, 1))
    /\ rdesc_items[2].item = UsageItem(<<9, 2>>, Word(0, 2))
    /\ items[1].usage_page = Some("Generic Desktop")
    /\ items[2].usage = Some("Mouse")

Classified(c) == c \in {"Main", "Global", "Local"}

\* C9 as stated: two different (category, sub-kind) pairs of Main, Global
\* and Local get different names; any other category gets Unknown, Unknown.
C9_NamesDistinct ==
    names # <<>> =>
        /\ (Classified(pair[1].cat) /\ Classified(pair[2].cat) /\ pair[1] # pair[2])
              => names[1].name # names[2].name
        /\ \A i \in 1..2 :
              ~Classified(pair[i].cat) =>
                  names[i].name = "Unknown" /\ names[i].type = "Unknown"

\* C9 amended: two different (category, sub-kind) pairs of Main, Global and
\* Local get different names unless they are Global Reserved and Local
\* Reserved, which both get Reserved and differ in coarse type; any other
\* category gets Unknown, Unknown.
C9_NamesDistinctButReserved ==
    names # <<>> =>
        /\ (Classified(pair[1].cat) /\ Classified(pair[2].cat) /\ pair[1] # pair[2])
              => \/ names[1].name # names[2].name
                 \/ /\ pair[1].kind = "Reserved"
                    /\ pair[2].kind = "Reserved"
                    /\ names[1].name = "Reserved"
                    /\ names[1].type # names[2].type
        /\ \A i \in 1..2 :
              /\ names[i].type = (IF Classified(pair[i].cat) THEN pair[i].cat ELSE "Unknown")
              /\ ~Classified(pair[i].cat) => names[i].name = "Unknown"

\* Two Local sub-kinds classified to different names.
C9_Witness ==
    /\ names # <<>>
    /\ pair[1].cat = "Local" /\ pair[1].kind = "Usage"
    /\ pair[2].cat = "Local" /\ pair[2].kind = "UsageMinimum"
    /\ names[1].name = "Usage"
    /\ names[2].name = "UsageMinimum"

UnknownCollection(item) ==
    IsCollection(item) /\ item.coll \notin {"Physical", "Logical", "Application"}

\* C10: when the descriptor holds a Collection item of a sub-kind outside
\* Physical, Logical, Application, no document is emitted and no output item
\* is produced for it; the run ends with a message and a non-zero status.
C10_UnknownCollectionReported ==
    (\E k \in 1..Len(rdesc_items) : UnknownCollection(rdesc_items[k].item)) =>
        /\ written = None
        /\ stdout = "none"
        /\ file \notin {"doc", "partial"}
        /\ \A k \in 1..Len(items) : ~UnknownCollection(rdesc_items[k].item)
        /\ pc = "done" => (status # 0 /\ stderr # "")

\* The pass met a Collection of sub-kind Report after producing items.
C10_Witness ==
    /\ pc = "done"
    /\ fail = "todo"
    /\ status = 101
    /\ Len(items) >= 1
    /\ UnknownCollection(rdesc_items[Len(items) + 1].item)

====
